---- MODULE Spec2Model ----
(***************************************************************************)
(* The chunking engine of chunk.py: chunk_chapter and the functions it     *)
(* calls (parse_sections, split_into_blocks, split_at_paragraphs,          *)
(* make_chunk, merge_small_chunks, estimate_tokens).                       *)
(*                                                                         *)
(* A text is a sequence of one-character strings, so that slicing,         *)
(* stripping, joining and len() are those of Python's str.  Offsets into   *)
(* a text are Python's (0-based); Slice(t, a, b) is t[a:b].                *)
(***************************************************************************)
EXTENDS Integers, Sequences, FiniteSets, TLC

\* ------------------------------------------------------------------ text

NL == "\n"

\* The characters str.strip() removes and \s matches.
WHITESPACE == {" ", "\t", "\n", "\r"}

\* Python's t[a:b] for 0 <= a, b <= len(t).
Slice(t, a, b) == SubSeq(t, a + 1, b)

\* min(S) of a non-empty set of integers
Min(S) == CHOOSE x \in S : \A y \in S : x <= y

\* The elements of a finite set of integers in increasing order.
RECURSIVE Sorted(_)
Sorted(S) == IF S = {} THEN <<>> ELSE <<Min(S)>> \o Sorted(S \ {Min(S)})

RECURSIVE lstrip_at(_, _)
lstrip_at(t, i) ==
    IF i > Len(t) THEN i
    ELSE IF t[i] \in WHITESPACE THEN lstrip_at(t, i + 1) ELSE i

RECURSIVE rstrip_at(_, _)
rstrip_at(t, j) ==
    IF j < 1 THEN j
    ELSE IF t[j] \in WHITESPACE THEN rstrip_at(t, j - 1) ELSE j

\* str.strip()
strip(t) == SubSeq(t, lstrip_at(t, 1), rstrip_at(t, Len(t)))

\* sep.join(parts)
RECURSIVE join(_, _)
join(sep, parts) ==
    IF parts = <<>> THEN <<>>
    ELSE IF Len(parts) = 1 THEN parts[1]
    ELSE parts[1] \o sep \o join(sep, Tail(parts))

\* The separator '\n\n' of the joins.
BLANK_LINE == <<NL, NL>>

\* t.startswith(p, i), i a 0-based offset
StartsWithAt(t, i, p) ==
    /\ i + Len(p) <= Len(t)
    /\ SubSeq(t, i + 1, i + Len(p)) = p

\* What ^ matches under re.MULTILINE: offset 0 and the offset after a newline.
AtLineStart(t, i) == i = 0 \/ t[i] = NL

\* CHARS_PER_TOKEN = 3.5 = CHARS_PER_TOKEN_NUM / CHARS_PER_TOKEN_DEN
CHARS_PER_TOKEN_NUM == 7
CHARS_PER_TOKEN_DEN == 2

\* The estimate rounded to the nearest integer.
estimate_tokens_rounded(text) ==
    (2 * Len(text) * CHARS_PER_TOKEN_DEN + CHARS_PER_TOKEN_NUM)
        \div (2 * CHARS_PER_TOKEN_NUM)

\* int(len(text) / CHARS_PER_TOKEN): the division is exact in floating point
\* for a multiple of 3.5 and int() truncates a non-negative number downwards.
estimate_tokens(text) == (Len(text) * CHARS_PER_TOKEN_DEN) \div CHARS_PER_TOKEN_NUM

\* ------------------------------------------------------------ markers

ENV_KEYWORDS ==
    << <<"T", "h", "e", "o", "r", "e", "m">>,
       <<"L", "e", "m", "m", "a">>,
       <<"P", "r", "o", "p", "o", "s", "i", "t", "i", "o", "n">>,
       <<"C", "o", "r", "o", "l", "l", "a", "r", "y">>,
       <<"D", "e", "f", "i", "n", "i", "t", "i", "o", "n">>,
       <<"E", "x", "a", "m", "p", "l", "e">>,
       <<"R", "e", "m", "a", "r", "k">>,
       <<"C", "o", "n", "j", "e", "c", "t", "u", "r", "e">>,
       <<"A", "x", "i", "o", "m">>,
       <<"P", "r", "i", "n", "c", "i", "p", "l", "e">>,
       <<"C", "o", "n", "v", "e", "n", "t", "i", "o", "n">>,
       <<"E", "x", "e", "r", "c", "i", "s", "e">>,
       <<"I", "n", "v", "e", "s", "t", "i", "g", "a", "t", "i", "o", "n">>,
       <<"A", "c", "t", "i", "v", "i", "t", "y">>,
       <<"E", "x", "p", "l", "o", "r", "a", "t", "i", "o", "n">>,
       <<"O", "b", "j", "e", "c", "t", "i", "v", "e", "s">>,
       <<"W", "o", "r", "k", "s", "h", "e", "e", "t">>,
       <<"A", "s", "s", "e", "m", "b", "l", "a", "g", "e">> >>

\* Keyword k of ENV_PATTERN matches at offset i: ^\*\*(k)\.?\*\* .  The optional
\* group (?:\s*\(.*?\))? needs a "(", which the texts of this model never hold.
EnvKeywordAt(t, i, k) ==
    LET kw == ENV_KEYWORDS[k]
        j  == i + 2 + Len(kw)
    IN  /\ StartsWithAt(t, i, <<"*", "*">>)
        /\ StartsWithAt(t, i + 2, kw)
        /\ \/ StartsWithAt(t, j, <<".", "*", "*">>)
           \/ StartsWithAt(t, j, <<"*", "*">>)

\* ENV_PATTERN matches at offset i
ENV_PATTERN(t, i) ==
    /\ AtLineStart(t, i)
    /\ \E k \in 1..Len(ENV_KEYWORDS) : EnvKeywordAt(t, i, k)

\* m.group(1) of the match at offset i
EnvLabel(t, i) ==
    ENV_KEYWORDS[CHOOSE k \in 1..Len(ENV_KEYWORDS) : EnvKeywordAt(t, i, k)]

\* PROOF_PATTERN matches at offset i: ^\*Proof\.\*
PROOF_PATTERN(t, i) ==
    /\ AtLineStart(t, i)
    /\ StartsWithAt(t, i, <<"*", "P", "r", "o", "o", "f", ".", "*">>)

\* The markers list of split_into_blocks after markers.sort(): every match
\* starts a line and ends on it, so two matches never overlap, no two start
\* at one offset, and scanning the offsets upwards yields the sorted list.
find_markers(t) ==
    LET starts == Sorted({i \in 0..(Len(t) - 1) :
                            ENV_PATTERN(t, i) \/ PROOF_PATTERN(t, i)})
    IN  [n \in 1..Len(starts) |->
           IF ENV_PATTERN(t, starts[n])
             THEN [start |-> starts[n], kind |-> "env",
                   label |-> EnvLabel(t, starts[n])]
             ELSE [start |-> starts[n], kind |-> "proof",
                   label |-> <<"P", "r", "o", "o", "f">>]]

\* ------------------------------------------------- split_into_blocks

\* The loop over the markers with every marker's block running to the end of
\* the text.
RECURSIVE blocks_loop_to_end(_, _, _, _, _)
blocks_loop_to_end(t, markers, i, pos, blocks) ==
    IF i > Len(markers) THEN [pos |-> pos, blocks |-> blocks]
    ELSE
      LET start == markers[i].start
          prose == strip(Slice(t, pos, start))
          b1    == IF start > pos /\ prose # <<>>
                     THEN Append(blocks, [type |-> "prose", text |-> prose])
                     ELSE blocks
          end   == Len(t)
          block_text == strip(Slice(t, start, end))
          b2    == IF block_text # <<>>
                     THEN Append(b1, [type |-> markers[i].kind,
                                      label |-> markers[i].label,
                                      text |-> block_text])
                     ELSE b1
      IN  blocks_loop_to_end(t, markers, i + 1, end, b2)

\* The loop over the markers from marker i on, with the loop's pos and blocks.
RECURSIVE blocks_loop(_, _, _, _, _)
blocks_loop(t, markers, i, pos, blocks) ==
    IF i > Len(markers) THEN [pos |-> pos, blocks |-> blocks]
    ELSE
      LET start == markers[i].start
          prose == strip(Slice(t, pos, start))
          b1    == IF start > pos /\ prose # <<>>
                     THEN Append(blocks, [type |-> "prose", text |-> prose])
                     ELSE blocks
          end   == IF i + 1 <= Len(markers) THEN markers[i + 1].start ELSE Len(t)
          block_text == strip(Slice(t, start, end))
          b2    == IF block_text # <<>>
                     THEN Append(b1, [type |-> markers[i].kind,
                                      label |-> markers[i].label,
                                      text |-> block_text])
                     ELSE b1
      IN  blocks_loop(t, markers, i + 1, end, b2)

split_into_blocks(t) ==
    IF strip(t) = <<>> THEN <<>>
    ELSE
      LET markers  == find_markers(t)
          after    == blocks_loop(t, markers, 1, 0, <<>>)
          trailing == strip(Slice(t, after.pos, Len(t)))
          b3 == IF after.pos < Len(t) /\ trailing # <<>>
                  THEN Append(after.blocks, [type |-> "prose", text |-> trailing])
                  ELSE after.blocks
      IN  IF markers = <<>> /\ strip(t) # <<>>
            THEN Append(b3, [type |-> "prose", text |-> strip(t)])
            ELSE b3

\* ------------------------------------------------ split_at_paragraphs

RECURSIVE skip_newlines(_, _)
skip_newlines(t, i) ==
    IF i <= Len(t) /\ t[i] = NL THEN skip_newlines(t, i + 1) ELSE i

\* re.split(r'\n\n+', t) from index i (1-based) on: a run of two or more
\* newlines separates two paragraphs, a single newline does not.
RECURSIVE re_split_paragraphs(_, _)
re_split_paragraphs(t, i) ==
    LET seps == {j \in i..(Len(t) - 1) : t[j] = NL /\ t[j + 1] = NL}
    IN  IF seps = {} THEN <<SubSeq(t, i, Len(t))>>
        ELSE <<SubSeq(t, i, Min(seps) - 1)>>
             \o re_split_paragraphs(t, skip_newlines(t, Min(seps)))

\* paragraphs_loop without the append of the last piece after the loop.
RECURSIVE paragraphs_loop_no_tail(_, _, _, _, _, _)
paragraphs_loop_no_tail(paragraphs, i, pieces, current, current_len, max_tokens) ==
    IF i > Len(paragraphs) THEN pieces
    ELSE
      LET para        == paragraphs[i]
          para_tokens == estimate_tokens(para)
      IN  IF current_len + para_tokens > max_tokens /\ current # <<>>
            THEN paragraphs_loop_no_tail(paragraphs, i + 1,
                                 Append(pieces, join(BLANK_LINE, current)),
                                 <<para>>, para_tokens, max_tokens)
            ELSE paragraphs_loop_no_tail(paragraphs, i + 1, pieces,
                                 Append(current, para),
                                 current_len + para_tokens, max_tokens)

\* paragraphs_loop starting the new piece empty, not with the paragraph that
\* did not fit.
RECURSIVE paragraphs_loop_lost_para(_, _, _, _, _, _)
paragraphs_loop_lost_para(paragraphs, i, pieces, current, current_len, max_tokens) ==
    IF i > Len(paragraphs)
      THEN IF current # <<>> THEN Append(pieces, join(BLANK_LINE, current))
           ELSE pieces
    ELSE
      LET para        == paragraphs[i]
          para_tokens == estimate_tokens(para)
      IN  IF current_len + para_tokens > max_tokens /\ current # <<>>
            THEN paragraphs_loop_lost_para(paragraphs, i + 1,
                                 Append(pieces, join(BLANK_LINE, current)),
                                 <<>>, 0, max_tokens)
            ELSE paragraphs_loop_lost_para(paragraphs, i + 1, pieces,
                                 Append(current, para),
                                 current_len + para_tokens, max_tokens)

\* paragraphs_loop closing the current piece only when current_len is above 0.
RECURSIVE paragraphs_loop_joins_zero(_, _, _, _, _, _)
paragraphs_loop_joins_zero(paragraphs, i, pieces, current, current_len, max_tokens) ==
    IF i > Len(paragraphs)
      THEN IF current # <<>> THEN Append(pieces, join(BLANK_LINE, current))
           ELSE pieces
    ELSE
      LET para        == paragraphs[i]
          para_tokens == estimate_tokens(para)
      IN  IF current_len + para_tokens > max_tokens /\ current_len > 0
            THEN paragraphs_loop_joins_zero(paragraphs, i + 1,
                                 Append(pieces, join(BLANK_LINE, current)),
                                 <<para>>, para_tokens, max_tokens)
            ELSE paragraphs_loop_joins_zero(paragraphs, i + 1, pieces,
                                 Append(current, para),
                                 current_len + para_tokens, max_tokens)

\* The loop over the paragraphs from paragraph i on.
RECURSIVE paragraphs_loop(_, _, _, _, _, _)
paragraphs_loop(paragraphs, i, pieces, current, current_len, max_tokens) ==
    IF i > Len(paragraphs)
      THEN IF current # <<>> THEN Append(pieces, join(BLANK_LINE, current))
           ELSE pieces
    ELSE
      LET para        == paragraphs[i]
          para_tokens == estimate_tokens(para)
      IN  IF current_len + para_tokens > max_tokens /\ current # <<>>
            THEN paragraphs_loop(paragraphs, i + 1,
                                 Append(pieces, join(BLANK_LINE, current)),
                                 <<para>>, para_tokens, max_tokens)
            ELSE paragraphs_loop(paragraphs, i + 1, pieces,
                                 Append(current, para),
                                 current_len + para_tokens, max_tokens)

split_at_paragraphs(t, max_tokens) ==
    IF estimate_tokens(t) <= max_tokens THEN <<t>>
    ELSE paragraphs_loop(re_split_paragraphs(t, 1), 1, <<>>, <<>>, 0,
                         max_tokens)

\* ----------------------------------------------------- parse_sections

RECURSIVE count_hashes(_, _)
count_hashes(line, i) ==
    IF i <= Len(line) /\ line[i] = "#" THEN count_hashes(line, i + 1) ELSE i - 1

\* The line matches (#{2,4})[ \t]+(.+) in full: two to four "#", at least one
\* blank, at least one more character.
header_match(line) ==
    LET n == count_hashes(line, 1)
    IN  /\ n \in 2..4
        /\ Len(line) >= n + 2
        /\ line[n + 1] \in {" ", "\t"}

\* The level of a header taken as 2 whatever its number of "#".
header_level_two(line) == 2

\* header_match.group(2).strip() and len(header_match.group(1))
header_text(line)  == strip(SubSeq(line, count_hashes(line, 1) + 1, Len(line)))
header_level(line) == count_hashes(line, 1)

\* The offset of the end of the line that starts at offset i.
line_end(t, i) ==
    LET newlines == {e \in i..(Len(t) - 1) : t[e + 1] = NL}
    IN  IF newlines = {} THEN Len(t) ELSE Min(newlines)

\* re.split(r'^(#{2,4}[ \t]+.+)$', t, flags=re.MULTILINE), scanning the line
\* that starts at offset i; the part being collected started at offset from.
RECURSIVE re_split_headers(_, _, _)
re_split_headers(t, i, from) ==
    IF i >= Len(t) THEN <<Slice(t, from, Len(t))>>
    ELSE LET e == line_end(t, i)
         IN  IF header_match(Slice(t, i, e))
               THEN <<Slice(t, from, i), Slice(t, i, e)>>
                    \o re_split_headers(t, e + 1, e)
               ELSE re_split_headers(t, e + 1, from)

\* An optional header: <<>> is None, <<h>> is the header text h.
None == <<>>

section_record(current_header, current_level, current_body) ==
    [header |-> current_header, level |-> current_level,
     body |-> strip(join(<<NL>>, current_body))]

\* The loop keeping current_body when a header starts a new section.
RECURSIVE sections_loop_keeps_body(_, _, _, _, _, _)
sections_loop_keeps_body(parts, i, sections_, current_header, current_level, current_body) ==
    IF i > Len(parts)
      THEN Append(sections_, section_record(current_header, current_level,
                                            current_body))
    ELSE IF header_match(parts[i])
      THEN sections_loop_keeps_body(parts, i + 1,
             Append(sections_, section_record(current_header, current_level,
                                              current_body)),
             <<header_text(parts[i])>>, header_level(parts[i]), current_body)
    ELSE sections_loop_keeps_body(parts, i + 1, sections_, current_header,
                                  current_level, Append(current_body, parts[i]))

\* The loop with the test "the body has text or there is a header" in place of
\* "current_body or current_header".
RECURSIVE sections_loop_skips_empty(_, _, _, _, _, _)
sections_loop_skips_empty(parts, i, sections_, current_header, current_level, current_body) ==
    LET emitted ==
          IF strip(join(<<NL>>, current_body)) # <<>> \/ current_header # None
            THEN Append(sections_, section_record(current_header, current_level,
                                                  current_body))
            ELSE sections_
    IN  IF i > Len(parts) THEN emitted
        ELSE IF header_match(parts[i])
          THEN sections_loop_skips_empty(parts, i + 1, emitted,
                 <<header_text(parts[i])>>, header_level(parts[i]), <<>>)
        ELSE sections_loop_skips_empty(parts, i + 1, sections_, current_header,
                                       current_level, Append(current_body, parts[i]))

\* The loop over the parts from part i on.
RECURSIVE sections_loop(_, _, _, _, _, _)
sections_loop(parts, i, sections_, current_header, current_level, current_body) ==
    IF i > Len(parts)
      THEN IF current_body # <<>> \/ (current_header # None /\ current_header[1] # <<>>)
             THEN Append(sections_, section_record(current_header, current_level,
                                                   current_body))
             ELSE sections_
    ELSE IF header_match(parts[i])
      THEN sections_loop(parts, i + 1,
             IF current_body # <<>> \/ (current_header # None /\ current_header[1] # <<>>)
               THEN Append(sections_, section_record(current_header, current_level,
                                                     current_body))
               ELSE sections_,
             <<header_text(parts[i])>>, header_level(parts[i]), <<>>)
    ELSE sections_loop(parts, i + 1, sections_, current_header, current_level,
                       Append(current_body, parts[i]))

parse_sections(t) ==
    sections_loop(re_split_headers(t, 0, 0), 1, <<>>, None, 0, <<>>)

\* ------------------------------------------------------------ preclean

\* re.sub(r'  +', ' ', t): every run of two or more spaces becomes one space.
collapse_spaces(t) ==
    LET kept == SelectSeq([i \in 1..Len(t) |-> i],
                          LAMBDA i : ~(t[i] = " " /\ i > 1 /\ t[i - 1] = " "))
    IN  [n \in 1..Len(kept) |-> t[kept[n]]]

\* preclean on the texts of this model.  Its first five substitutions need a
\* "[" or a "{", the sixth a line of "#" alone, the last a second "# " line;
\* no text of the model holds one, which leaves the run-of-spaces rule.
preclean(t) == collapse_spaces(t)

\* re.sub(r'^#\s+.+\n*', '', t, count=1): a "#" at offset 0, whitespace, the
\* rest of that line and the newlines after it.  (When only whitespace follows
\* the "#", the regex backtracks; no text of the model is of that shape.)
strip_h1(t) ==
    IF Len(t) >= 2 /\ t[1] = "#" /\ t[2] \in WHITESPACE
      THEN LET j == lstrip_at(t, 2)
           IN  IF j > Len(t) THEN t
               ELSE SubSeq(t, skip_newlines(t, line_end(t, j - 1) + 1), Len(t))
      ELSE t

\* ------------------------------------------------- chunks and the merger

make_chunk(t, chapter_meta_, section_header) ==
    [chapter_meta |-> chapter_meta_,
     section      |-> section_header,
     text         |-> t,
     tokens_est   |-> estimate_tokens(t)]

\* flush() joining the pending blocks with one newline.
flush_single_newline(raw_chunks_, pending_, chapter_meta_, section_header) ==
    IF pending_ = <<>> THEN raw_chunks_
    ELSE Append(raw_chunks_,
                make_chunk(join(<<NL>>, pending_), chapter_meta_, section_header))

\* flush() without its early return on an empty pending list.
flush_appends_empty(raw_chunks_, pending_, chapter_meta_, section_header) ==
    Append(raw_chunks_,
           make_chunk(join(BLANK_LINE, pending_), chapter_meta_, section_header))

\* flush() of chunk_chapter: the raw chunk list after it.
flush(raw_chunks_, pending_, chapter_meta_, section_header) ==
    IF pending_ = <<>> THEN raw_chunks_
    ELSE Append(raw_chunks_,
                make_chunk(join(BLANK_LINE, pending_), chapter_meta_, section_header))

\* The merge condition with can_merge bound to the same-section disjunct only.
merge_condition_ungated(prev, chunk_, min_tokens_, max_tokens_) ==
    LET can_merge    == prev.tokens_est + chunk_.tokens_est <= max_tokens_
        same_section == prev.section = chunk_.section
        prev_tiny    == prev.tokens_est < min_tokens_
        chunk_tiny   == chunk_.tokens_est < min_tokens_
    IN  \/ can_merge /\ same_section /\ (prev_tiny \/ chunk_tiny)
        \/ prev_tiny /\ prev.tokens_est < min_tokens_ \div 2

\* The merge condition without the same_section test.
merge_condition_any_tiny(prev, chunk_, min_tokens_, max_tokens_) ==
    LET can_merge    == prev.tokens_est + chunk_.tokens_est <= max_tokens_
        prev_tiny    == prev.tokens_est < min_tokens_
        chunk_tiny   == chunk_.tokens_est < min_tokens_
    IN  can_merge /\ (prev_tiny \/ chunk_tiny)

\* The condition of the if in merge_small_chunks.
merge_condition(prev, chunk_, min_tokens_, max_tokens_) ==
    LET can_merge    == prev.tokens_est + chunk_.tokens_est <= max_tokens_
        same_section == prev.section = chunk_.section
        prev_tiny    == prev.tokens_est < min_tokens_
        chunk_tiny   == chunk_.tokens_est < min_tokens_
    IN  can_merge /\ (\/ same_section /\ (prev_tiny \/ chunk_tiny)
                      \/ prev_tiny /\ prev.tokens_est < min_tokens_ \div 2)

\* prev after a merge that adds the two estimates and leaves the text's own
\* estimate uncomputed.
merge_into_running_sum(prev, chunk_) ==
    [prev EXCEPT !.text = prev.text \o BLANK_LINE \o chunk_.text,
                 !.tokens_est = prev.tokens_est + chunk_.tokens_est]

\* prev after a merge that leaves tokens_est at the incoming chunk's estimate.
merge_into_incoming_estimate(prev, chunk_) ==
    [prev EXCEPT !.text = prev.text \o BLANK_LINE \o chunk_.text,
                 !.tokens_est = chunk_.tokens_est]

\* prev after a merge whose comparison reads prev["tokens_est"] as it was
\* before the merge.
merge_into_compares_before(prev, chunk_) ==
    LET t1 == prev.text \o BLANK_LINE \o chunk_.text
    IN  [prev EXCEPT !.text = t1,
                     !.tokens_est = estimate_tokens(t1),
                     !.section = IF chunk_.tokens_est > prev.tokens_est
                                   THEN chunk_.section
                                   ELSE prev.section]

\* prev after a merge that joins the two texts with one newline.
merge_into_single_newline(prev, chunk_) ==
    LET t1 == prev.text \o <<NL>> \o chunk_.text
    IN  [prev EXCEPT !.text = t1, !.tokens_est = estimate_tokens(t1)]

\* prev after the three assignments of the merge branch, in their order: the
\* comparison reads prev["tokens_est"] after it was recomputed.
merge_into(prev, chunk_) ==
    LET t1 == prev.text \o BLANK_LINE \o chunk_.text
        e1 == estimate_tokens(t1)
    IN  [prev EXCEPT !.text = t1,
                     !.tokens_est = e1,
                     !.section = IF chunk_.tokens_est > e1 THEN chunk_.section
                                 ELSE prev.section]

\* The floor of chunk_chapter's filter.
FLOOR_TOKENS == 20

\* The filter with a floor of 2.
floor_filter_low(cs) == SelectSeq(cs, LAMBDA c : c.tokens_est >= 2)

\* [c for c in chunks if c["tokens_est"] >= 20]
floor_filter(cs) == SelectSeq(cs, LAMBDA c : c.tokens_est >= FLOOR_TOKENS)

\* chunk["chunk_id"] = i for i, chunk in enumerate(chunks)
number_chunks(cs) ==
    [i \in 1..Len(cs) |->
        [chapter_meta |-> cs[i].chapter_meta, section |-> cs[i].section,
         text |-> cs[i].text, tokens_est |-> cs[i].tokens_est,
         chunk_id |-> i - 1]]

\* --------------------------------------- chunk_chapter as one function

\* The body of the loop over the blocks: acc holds raw_chunks, pending and
\* pending_tokens.
block_pass(acc, block_text, chapter_meta_, header, max_tokens_) ==
    LET block_tokens == estimate_tokens(block_text)
        pieces       == split_at_paragraphs(block_text, max_tokens_)
        flushed      == flush(acc.raw_chunks, acc.pending, chapter_meta_, header)
    IN  IF block_tokens > max_tokens_
          THEN [raw_chunks     |-> flushed \o
                                   [i \in 1..Len(pieces) |->
                                       make_chunk(pieces[i], chapter_meta_, header)],
                pending        |-> <<>>,
                pending_tokens |-> IF acc.pending = <<>> THEN acc.pending_tokens
                                   ELSE 0]
        ELSE IF acc.pending_tokens + block_tokens > max_tokens_
          THEN [raw_chunks     |-> flushed,
                pending        |-> <<block_text>>,
                pending_tokens |-> (IF acc.pending = <<>> THEN acc.pending_tokens
                                    ELSE 0) + block_tokens]
        ELSE   [raw_chunks     |-> acc.raw_chunks,
                pending        |-> Append(acc.pending, block_text),
                pending_tokens |-> acc.pending_tokens + block_tokens]

\* The loop over the blocks of one section, from block k on.
RECURSIVE blocks_pass(_, _, _, _, _, _)
blocks_pass(acc, blocks_, k, chapter_meta_, header, max_tokens_) ==
    IF k > Len(blocks_) THEN acc
    ELSE blocks_pass(block_pass(acc, blocks_[k].text, chapter_meta_, header,
                                max_tokens_),
                     blocks_, k + 1, chapter_meta_, header, max_tokens_)

\* The loop over the sections, from section s on: raw_chunks after it.
RECURSIVE sections_pass(_, _, _, _, _)
sections_pass(raw_chunks_, sections_, s, chapter_meta_, max_tokens_) ==
    IF s > Len(sections_) THEN raw_chunks_
    ELSE LET header == IF sections_[s].header = None THEN <<>>
                       ELSE sections_[s].header[1]
             acc    == blocks_pass([raw_chunks |-> raw_chunks_, pending |-> <<>>,
                                    pending_tokens |-> 0],
                                   split_into_blocks(sections_[s].body), 1,
                                   chapter_meta_, header, max_tokens_)
         IN  sections_pass(flush(acc.raw_chunks, acc.pending, chapter_meta_, header),
                           sections_, s + 1, chapter_meta_, max_tokens_)

\* The loop of merge_small_chunks, from chunk i on.
RECURSIVE merge_pass(_, _, _, _, _)
merge_pass(merged_, chunks_, i, min_tokens_, max_tokens_) ==
    IF i > Len(chunks_) THEN merged_
    ELSE LET prev == merged_[Len(merged_)]
         IN  merge_pass(IF merge_condition(prev, chunks_[i], min_tokens_, max_tokens_)
                          THEN [merged_ EXCEPT ![Len(merged_)] =
                                   merge_into(prev, chunks_[i])]
                          ELSE Append(merged_, chunks_[i]),
                        chunks_, i + 1, min_tokens_, max_tokens_)

merge_small_chunks(chunks_, min_tokens_, max_tokens_) ==
    IF Len(chunks_) <= 1 THEN chunks_
    ELSE merge_pass(<<chunks_[1]>>, chunks_, 2, min_tokens_, max_tokens_)

\* chunk_chapter(text, chapter_meta, min_tokens, max_tokens): the list it
\* returns.
chunk_chapter(text_, chapter_meta_, min_tokens_, max_tokens_) ==
    LET body  == strip(strip_h1(preclean(text_)))
        raw   == sections_pass(<<>>, parse_sections(body), 1, chapter_meta_,
                               max_tokens_)
    IN  number_chunks(floor_filter(merge_small_chunks(raw, min_tokens_, max_tokens_)))

\* ------------------------------------------------------------- inputs

\* The chapters: a title line and up to MaxSegments segments, each a header
\* line (written with a run of two spaces), a marker, a short paragraph on a
\* line of its own followed by a blank line, or a long run of text.
MaxSegments == 4

\* The length of the long run of text: FLOOR_TOKENS tokens.
LongRun == 70

TITLE == <<"#", " ", "T", NL>>

SEGMENTS ==
    { <<NL, "#", "#", " ", " ", "A", NL>>,
      <<"*", "*", "L", "e", "m", "m", "a", ".", "*", "*">>,
      <<"*", "P", "r", "o", "o", "f", ".", "*">>,
      <<NL, "a", "a", "a", NL, NL>>,
      [i \in 1..LongRun |-> "a"] }

RECURSIVE concat(_)
concat(parts) == IF parts = <<>> THEN <<>> ELSE parts[1] \o concat(Tail(parts))

CHAPTERS ==
    { TITLE \o concat(segs) :
        segs \in UNION { [1..k -> SEGMENTS] : k \in 0..MaxSegments } }

\* The budgets chunk_chapter is called with: <<min_tokens, max_tokens>>.
BUDGETS == {<<2, 4>>, <<16, 22>>}

\* -------------------------------------------------------------- state

VARIABLES
    pc,             \* where chunk_chapter is: "start", "sections", "blocks",
                    \* "merge", "done"
    text,           \* chunk_chapter's arguments
    chapter_meta,
    min_tokens,
    max_tokens,
    sections,       \* parse_sections(body)
    section,        \* the index in sections of the for loop's section
    blocks,         \* split_into_blocks(section["body"])
    block,          \* the index in blocks of the for loop's block
    pending,
    pending_tokens,
    raw_chunks,
    raw_origin,     \* for each raw chunk: the section and blocks it was made
                    \* of, and whether flush() or the oversized branch made it
    merged,         \* merge_small_chunks' list
    merged_origin,  \* for each chunk of merged: the first and the last raw
                    \* chunk it holds
    chunk,          \* the index in raw_chunks of the merger's for loop
    last_merge,     \* what the merger's last step did
    chunks,         \* chunk_chapter's result
    book_dir,       \* process_book: the texts of sorted(book_dir.glob("*.md"))
    md_file,        \* the index in book_dir of the for loop's file
    all_chunks,     \* process_book's list
    PRETEXT_META,   \* the module-level dict of get_pretext_meta
    out_file        \* the records main writes to the book's .jsonl file

vars == <<pc, text, chapter_meta, min_tokens, max_tokens, sections, section,
          blocks, block, pending, pending_tokens, raw_chunks, raw_origin,
          merged, merged_origin, chunk, last_merge, chunks, book_dir, md_file,
          all_chunks, PRETEXT_META, out_file>>

\* What process_book and main hold; chunk_chapter leaves it alone.
book_vars == <<book_dir, md_file, all_chunks, PRETEXT_META, out_file>>

NoMerge == [merged |-> FALSE]

\* PRETEXT_META = {} of the module: a dict with no key.
EMPTY_DICT == [k \in {} |-> {}]

\* chunk_chapter's locals before its first statement.
InitChapter ==
    /\ sections = <<>>
    /\ section = 1
    /\ blocks = <<>>
    /\ block = 1
    /\ pending = <<>>
    /\ pending_tokens = 0
    /\ raw_chunks = <<>>
    /\ raw_origin = <<>>
    /\ merged = <<>>
    /\ merged_origin = <<>>
    /\ chunk = 1
    /\ last_merge = NoMerge
    /\ chunks = <<>>

Init ==
    /\ pc = "start"
    /\ text \in CHAPTERS
    /\ chapter_meta = "meta"
    /\ \E budget \in BUDGETS : min_tokens = budget[1] /\ max_tokens = budget[2]
    /\ InitChapter
    /\ book_dir = <<>>
    /\ md_file = 1
    /\ all_chunks = <<>>
    /\ PRETEXT_META = EMPTY_DICT
    /\ out_file = <<>>

\* The header every chunk would carry if the first section's were used.
section_header_first == IF sections[1].header = None THEN <<>>
                        ELSE sections[1].header[1]

\* section["header"] or ""
section_header == IF sections[section].header = None THEN <<>>
                  ELSE sections[section].header[1]

\* ------------------------------------------------------- chunk_chapter

\* ParseChapter without raw_chunks = []: the list outlives the call.
ParseChapter_keeps_raw_chunks ==
    /\ pc = "start"
    /\ sections' = parse_sections(strip(strip_h1(preclean(text))))
    /\ section' = 1
    /\ pc' = "sections"
    /\ UNCHANGED <<text, chapter_meta, min_tokens, max_tokens, blocks, block,
                   pending, pending_tokens, raw_chunks, raw_origin, merged,
                   merged_origin, chunk, last_merge, chunks>>
    /\ UNCHANGED book_vars

\* preclean, the h1 strip, parse_sections and raw_chunks = [].
ParseChapter ==
    /\ pc = "start"
    /\ sections' = parse_sections(strip(strip_h1(preclean(text))))
    /\ section' = 1
    /\ raw_chunks' = <<>>
    /\ raw_origin' = <<>>
    /\ pc' = "sections"
    /\ UNCHANGED <<text, chapter_meta, min_tokens, max_tokens, blocks, block,
                   pending, pending_tokens, merged, merged_origin, chunk,
                   last_merge, chunks>>
    /\ UNCHANGED book_vars

\* The head of the loop over the sections: the section's blocks and an empty
\* accumulator.
BeginSection ==
    /\ pc = "sections"
    /\ section <= Len(sections)
    /\ blocks' = split_into_blocks(sections[section].body)
    /\ block' = 1
    /\ pending' = <<>>
    /\ pending_tokens' = 0
    /\ pc' = "blocks"
    /\ UNCHANGED <<text, chapter_meta, min_tokens, max_tokens, sections, section,
                   raw_chunks, raw_origin, merged, merged_origin, chunk,
                   last_merge, chunks>>
    /\ UNCHANGED book_vars

\* The origin records of the chunks flush() appends.
flush_origin(pending_) ==
    IF pending_ = <<>> THEN <<>>
    ELSE <<[section |-> section, kind |-> "flush",
            first |-> block - Len(pending_), last |-> block - 1]>>

\* One pass of the loop over the blocks with the pieces of an oversized block
\* appended before the pending blocks are flushed.
BlockStep_pieces_first ==
    /\ pc = "blocks"
    /\ block <= Len(blocks)
    /\ LET block_text   == blocks[block].text
           block_tokens == estimate_tokens(block_text)
           pieces       == split_at_paragraphs(block_text, max_tokens)
           flushed      == flush(raw_chunks, pending, chapter_meta, section_header)
       IN  IF block_tokens > max_tokens
             THEN /\ raw_chunks' = flush(raw_chunks \o
                       [i \in 1..Len(pieces) |->
                           make_chunk(pieces[i], chapter_meta, section_header)],
                       pending, chapter_meta, section_header)
                  /\ raw_origin' = raw_origin \o
                       [i \in 1..Len(pieces) |->
                           [section |-> section, kind |-> "piece",
                            first |-> block, last |-> block]] \o
                       flush_origin(pending)
                  /\ pending' = <<>>
                  /\ pending_tokens' = IF pending = <<>> THEN pending_tokens ELSE 0
           ELSE IF pending_tokens + block_tokens > max_tokens
             THEN /\ raw_chunks' = flushed
                  /\ raw_origin' = raw_origin \o flush_origin(pending)
                  /\ pending' = <<block_text>>
                  /\ pending_tokens' =
                       (IF pending = <<>> THEN pending_tokens ELSE 0) + block_tokens
           ELSE   /\ pending' = Append(pending, block_text)
                  /\ pending_tokens' = pending_tokens + block_tokens
                  /\ UNCHANGED <<raw_chunks, raw_origin>>
    /\ block' = block + 1
    /\ UNCHANGED <<pc, text, chapter_meta, min_tokens, max_tokens, sections,
                   section, blocks, merged, merged_origin, chunk, last_merge,
                   chunks>>
    /\ UNCHANGED book_vars

\* One pass of the loop over the section's blocks.
BlockStep ==
    /\ pc = "blocks"
    /\ block <= Len(blocks)
    /\ LET block_text   == blocks[block].text
           block_tokens == estimate_tokens(block_text)
           pieces       == split_at_paragraphs(block_text, max_tokens)
           flushed      == flush(raw_chunks, pending, chapter_meta, section_header)
       IN  IF block_tokens > max_tokens
             THEN /\ raw_chunks' = flushed \o
                       [i \in 1..Len(pieces) |->
                           make_chunk(pieces[i], chapter_meta, section_header)]
                  /\ raw_origin' = raw_origin \o flush_origin(pending) \o
                       [i \in 1..Len(pieces) |->
                           [section |-> section, kind |-> "piece",
                            first |-> block, last |-> block]]
                  /\ pending' = <<>>
                  /\ pending_tokens' = IF pending = <<>> THEN pending_tokens ELSE 0
           ELSE IF pending_tokens + block_tokens > max_tokens
             THEN /\ raw_chunks' = flushed
                  /\ raw_origin' = raw_origin \o flush_origin(pending)
                  /\ pending' = <<block_text>>
                  /\ pending_tokens' =
                       (IF pending = <<>> THEN pending_tokens ELSE 0) + block_tokens
           ELSE   /\ pending' = Append(pending, block_text)
                  /\ pending_tokens' = pending_tokens + block_tokens
                  /\ UNCHANGED <<raw_chunks, raw_origin>>
    /\ block' = block + 1
    /\ UNCHANGED <<pc, text, chapter_meta, min_tokens, max_tokens, sections,
                   section, blocks, merged, merged_origin, chunk, last_merge,
                   chunks>>
    /\ UNCHANGED book_vars

\* The flush() after the section's last block.
EndSection ==
    /\ pc = "blocks"
    /\ block > Len(blocks)
    /\ raw_chunks' = flush(raw_chunks, pending, chapter_meta, section_header)
    /\ raw_origin' = raw_origin \o flush_origin(pending)
    /\ pending' = <<>>
    /\ pending_tokens' = IF pending = <<>> THEN pending_tokens ELSE 0
    /\ section' = section + 1
    /\ pc' = "sections"
    /\ UNCHANGED <<text, chapter_meta, min_tokens, max_tokens, sections, blocks,
                   block, merged, merged_origin, chunk, last_merge, chunks>>
    /\ UNCHANGED book_vars

\* merge_small_chunks up to its loop: a list of at most one chunk is returned
\* as it is, else merged starts as [chunks[0]].
BeginMerge ==
    /\ pc = "sections"
    /\ section > Len(sections)
    /\ IF Len(raw_chunks) <= 1
         THEN merged' = raw_chunks /\ chunk' = Len(raw_chunks) + 1
         ELSE merged' = <<raw_chunks[1]>> /\ chunk' = 2
    /\ merged_origin' = IF raw_chunks = <<>> THEN <<>>
                        ELSE <<[first |-> 1, last |-> 1]>>
    /\ last_merge' = NoMerge
    /\ pc' = "merge"
    /\ UNCHANGED <<text, chapter_meta, min_tokens, max_tokens, sections, section,
                   blocks, block, pending, pending_tokens, raw_chunks,
                   raw_origin, chunks>>
    /\ UNCHANGED book_vars

\* One pass of the merger's loop.
MergeStep ==
    /\ pc = "merge"
    /\ chunk <= Len(raw_chunks)
    /\ LET prev == merged[Len(merged)]
           c    == raw_chunks[chunk]
       IN  IF merge_condition(prev, c, min_tokens, max_tokens)
             THEN /\ merged' = [merged EXCEPT ![Len(merged)] = merge_into(prev, c)]
                  /\ merged_origin' =
                       [merged_origin EXCEPT ![Len(merged)].last = chunk]
                  /\ last_merge' = [merged |-> TRUE, prev |-> prev, chunk |-> c]
             ELSE /\ merged' = Append(merged, c)
                  /\ merged_origin' =
                       Append(merged_origin, [first |-> chunk, last |-> chunk])
                  /\ last_merge' = NoMerge
    /\ chunk' = chunk + 1
    /\ UNCHANGED <<pc, text, chapter_meta, min_tokens, max_tokens, sections,
                   section, blocks, block, pending, pending_tokens, raw_chunks,
                   raw_origin, chunks>>
    /\ UNCHANGED book_vars

\* The numbering done on the merger's list, before the floor filter.
FilterAndNumber_ids_first ==
    /\ pc = "merge"
    /\ chunk > Len(raw_chunks)
    /\ chunks' = floor_filter(number_chunks(merged))
    /\ pc' = "done"
    /\ UNCHANGED <<text, chapter_meta, min_tokens, max_tokens, sections, section,
                   blocks, block, pending, pending_tokens, raw_chunks,
                   raw_origin, merged, merged_origin, chunk, last_merge>>
    /\ UNCHANGED book_vars

\* The floor filter and the numbering of the chunks.
FilterAndNumber ==
    /\ pc = "merge"
    /\ chunk > Len(raw_chunks)
    /\ chunks' = number_chunks(floor_filter(merged))
    /\ pc' = "done"
    /\ UNCHANGED <<text, chapter_meta, min_tokens, max_tokens, sections, section,
                   blocks, block, pending, pending_tokens, raw_chunks,
                   raw_origin, merged, merged_origin, chunk, last_merge>>
    /\ UNCHANGED book_vars

Next ==
    \/ ParseChapter
    \/ BeginSection
    \/ BlockStep
    \/ EndSection
    \/ BeginMerge
    \/ MergeStep
    \/ FilterAndNumber

Spec == Init /\ [][Next]_vars

\* ------------------------------------------------ process_book and main

\* The most .md files a book directory holds.
MaxChapters == 3

\* The chapter files of a book: a title alone, one proof, one long paragraph,
\* and a proof before a section with a long paragraph.
BOOK_CHAPTERS ==
    { TITLE,
      TITLE \o <<"*", "P", "r", "o", "o", "f", ".", "*">> \o [i \in 1..LongRun |-> "a"],
      TITLE \o [i \in 1..LongRun |-> "a"],
      TITLE \o <<"*", "P", "r", "o", "o", "f", ".", "*">>
            \o <<NL, "#", "#", " ", " ", "A", NL>> \o [i \in 1..LongRun |-> "a"] }

BOOK_DIRS == UNION { [1..k -> BOOK_CHAPTERS] : k \in 0..MaxChapters }

\* The book main is run for, a PreTeXt book.
BOOK_KEY == "mathematical-reasoning"

\* build_pretext_metadata for the book: stem -> chapter title.  The stem of a
\* file is its place in the directory; the source has a title for the first.
BUILT_META == [stem \in {1} |-> <<"I">>]

\* PRETEXT_META after get_pretext_meta(BOOK_KEY).
get_pretext_meta(PRETEXT_META_) ==
    IF BOOK_KEY \in DOMAIN PRETEXT_META_ THEN PRETEXT_META_
    ELSE [k \in DOMAIN PRETEXT_META_ \cup {BOOK_KEY} |->
            IF k = BOOK_KEY THEN BUILT_META ELSE PRETEXT_META_[k]]

\* title_from_md: the first line without its "# ", or None.
title_from_md(t) ==
    LET first_line == strip(Slice(t, 0, line_end(t, 0)))
    IN  IF Len(first_line) >= 2 /\ first_line[1] = "#" /\ first_line[2] = " "
          THEN <<strip(SubSeq(first_line, 3, Len(first_line)))>>
          ELSE None

\* resolve_chapter_meta for a PreTeXt book, and the chapter_meta dict
\* process_book builds from it.
resolve_chapter_meta(meta, stem, t) ==
    IF stem \in DOMAIN meta THEN meta[stem]
    ELSE IF title_from_md(t) # None /\ title_from_md(t)[1] # <<>>
      THEN title_from_md(t)[1]
    ELSE <<"s", "t", "e", "m">>

chapter_meta_of(meta, stem, t) ==
    [book_key |-> BOOK_KEY, chapter |-> resolve_chapter_meta(meta, stem, t),
     source_file |-> stem]

InitBook ==
    /\ pc = "book"
    /\ book_dir \in BOOK_DIRS
    /\ md_file = 1
    /\ all_chunks = <<>>
    /\ PRETEXT_META = EMPTY_DICT
    /\ out_file = <<>>
    /\ text = <<>>
    /\ chapter_meta = chapter_meta_of(EMPTY_DICT, 0, <<>>)
    /\ \E budget \in BUDGETS : min_tokens = budget[1] /\ max_tokens = budget[2]
    /\ InitChapter

\* The head of the loop over the files: read_text, resolve_chapter_meta (which
\* fills PRETEXT_META on its first call) and the call of chunk_chapter.  The
\* locals of chunk_chapter are left as the last call left them: the call
\* assigns each one before it reads it.
ReadChapter ==
    /\ pc = "book"
    /\ md_file <= Len(book_dir)
    /\ text' = book_dir[md_file]
    /\ PRETEXT_META' = get_pretext_meta(PRETEXT_META)
    /\ chapter_meta' = chapter_meta_of(get_pretext_meta(PRETEXT_META)[BOOK_KEY],
                                       md_file, book_dir[md_file])
    /\ pc' = "start"
    /\ UNCHANGED <<min_tokens, max_tokens, sections, section, blocks, block,
                   pending, pending_tokens, raw_chunks, raw_origin, merged,
                   merged_origin, chunk, last_merge, chunks, book_dir, md_file,
                   all_chunks, out_file>>

\* all_chunks.extend(chunks) and the next file.
ExtendAllChunks ==
    /\ pc = "done"
    /\ all_chunks' = all_chunks \o chunks
    /\ md_file' = md_file + 1
    /\ pc' = "book"
    /\ UNCHANGED <<text, chapter_meta, min_tokens, max_tokens, sections, section,
                   blocks, block, pending, pending_tokens, raw_chunks,
                   raw_origin, merged, merged_origin, chunk, last_merge, chunks,
                   book_dir, PRETEXT_META, out_file>>

\* process_book returns and main writes one line per chunk to the book's file.
WriteBook ==
    /\ pc = "book"
    /\ md_file > Len(book_dir)
    /\ out_file' = all_chunks
    /\ pc' = "written"
    /\ UNCHANGED <<text, chapter_meta, min_tokens, max_tokens, sections, section,
                   blocks, block, pending, pending_tokens, raw_chunks,
                   raw_origin, merged, merged_origin, chunk, last_merge, chunks,
                   book_dir, md_file, all_chunks, PRETEXT_META>>

NextBook ==
    \/ ReadChapter
    \/ ParseChapter
    \/ BeginSection
    \/ BlockStep
    \/ EndSection
    \/ BeginMerge
    \/ MergeStep
    \/ FilterAndNumber
    \/ ExtendAllChunks
    \/ WriteBook

BookSpec == InitBook /\ [][NextBook]_vars

\* -------------------------------------------- chapters with many headers

\* The largest number of lines of a chapter below its title.
MaxLines == 3

\* The lines of these chapters: header lines of level 2, 3 and 4, a line of
\* five "#" (no header), a line of "##" with no blank after it (no header), a
\* line of text and an empty line.
HEADER_LINES ==
    { <<"#", "#", " ", "A">>,
      <<"#", "#", "#", " ", "B">>,
      <<"#", "#", "#", "#", " ", "C">>,
      <<"#", "#", "#", "#", "#", " ", "D">>,
      <<"#", "#", "E">>,
      <<"x">>,
      <<>> }

HEADER_CHAPTERS ==
    { TITLE \o join(<<NL>>, ls) :
        ls \in UNION { [1..k -> HEADER_LINES] : k \in 0..MaxLines } }

\* chunk_chapter called with one of these chapters.
InitHeaders ==
    /\ pc = "start"
    /\ text \in HEADER_CHAPTERS
    /\ chapter_meta = "meta"
    /\ \E budget \in BUDGETS : min_tokens = budget[1] /\ max_tokens = budget[2]
    /\ InitChapter
    /\ book_dir = <<>>
    /\ md_file = 1
    /\ all_chunks = <<>>
    /\ PRETEXT_META = EMPTY_DICT
    /\ out_file = <<>>

HeaderSpec == InitHeaders /\ [][Next]_vars

\* --------------------------------- chapters of one-block sections

\* The largest number of sections of such a chapter.
MaxSections == 3

\* Proof blocks of 8, 30 and 70 characters: 2, 8 and 20 tokens.
PROOF_BLOCKS ==
    { <<"*", "P", "r", "o", "o", "f", ".", "*">> \o [i \in 1..n |-> "a"] :
        n \in {0, 22, 62} }

\* A section of these chapters: a header line "## A" or "## B" and one proof
\* block, which chunk_chapter turns into one raw chunk.  Two sections may
\* carry the same header.
ONE_BLOCK_SECTIONS ==
    { <<"#", "#", " ", h, NL>> \o b \o <<NL>> : h \in {"A", "B"}, b \in PROOF_BLOCKS }

MERGER_CHAPTERS ==
    { TITLE \o concat(secs) :
        secs \in UNION { [1..k -> ONE_BLOCK_SECTIONS] : k \in 0..MaxSections } }

\* chunk_chapter called with one of these chapters.
InitMerger ==
    /\ pc = "start"
    /\ text \in MERGER_CHAPTERS
    /\ chapter_meta = "meta"
    /\ \E budget \in BUDGETS : min_tokens = budget[1] /\ max_tokens = budget[2]
    /\ InitChapter
    /\ book_dir = <<>>
    /\ md_file = 1
    /\ all_chunks = <<>>
    /\ PRETEXT_META = EMPTY_DICT
    /\ out_file = <<>>

MergerSpec == InitMerger /\ [][Next]_vars

\* ------------------------------------------------------------- claims

\* The elements of a sequence.
Range(seq) == {seq[i] : i \in 1..Len(seq)}

\* The paragraphs of a text, as split_at_paragraphs splits it.
paragraphs_of(t) == re_split_paragraphs(t, 1)

\* The texts of a sequence of blocks.
block_texts(bs) == [k \in 1..Len(bs) |-> bs[k].text]

\* A text without its whitespace characters.
non_whitespace(t) == SelectSeq(t, LAMBDA c : c \notin WHITESPACE)

\* A text with every run of two or more newlines cut to two newlines.
collapse_newlines(t) ==
    LET kept == SelectSeq([i \in 1..Len(t) |-> i],
                          LAMBDA i : ~(i >= 3 /\ t[i] = NL /\ t[i - 1] = NL
                                              /\ t[i - 2] = NL))
    IN  [n \in 1..Len(kept) |-> t[kept[n]]]

\* Raw chunk i is one piece of the paragraph splitter that is one paragraph
\* estimating above max_tokens.
oversized_paragraph(i) ==
    /\ raw_origin[i].kind = "piece"
    /\ Len(paragraphs_of(raw_chunks[i].text)) = 1
    /\ estimate_tokens(raw_chunks[i].text) > max_tokens

\* C1: every raw chunk the assembler appends has tokens_est <= max_tokens,
\* unless it is a single piece of the paragraph splitter made of one paragraph
\* that alone estimates above max_tokens.
C1_RawChunkWithinBudget ==
    \A i \in 1..Len(raw_chunks) :
        raw_chunks[i].tokens_est <= max_tokens \/ oversized_paragraph(i)

\* C2: a merge of two chunks that are each within max_tokens leaves a merged
\* chunk whose tokens_est, recomputed from the merged text, is <= max_tokens.
C2_MergedWithinBudget ==
    (/\ last_merge.merged
     /\ last_merge.prev.tokens_est <= max_tokens
     /\ last_merge.chunk.tokens_est <= max_tokens)
        => merged[Len(merged)].tokens_est <= max_tokens

\* C3: for every pair (prev, chunk) the merger merges, forced merges across
\* sections included, prev.tokens_est as it was just before the merge plus
\* chunk.tokens_est is <= max_tokens.
C3_MergeWithinCeiling ==
    last_merge.merged =>
        last_merge.prev.tokens_est + last_merge.chunk.tokens_est <= max_tokens

\* C3's case: a forced merge across two sections into an accumulator that
\* already holds an earlier merge.
C3_Witness ==
    /\ last_merge.merged
    /\ last_merge.prev.section # last_merge.chunk.section
    /\ \A k \in 1..Len(raw_chunks) : raw_chunks[k].text # last_merge.prev.text

\* C4: the blocks of a section body, concatenated in order, hold every
\* non-whitespace character of the body exactly once and in source order.
C4_BlocksCoverBody ==
    pc = "blocks" =>
        non_whitespace(concat(block_texts(blocks)))
            = non_whitespace(sections[section].body)

\* C5: a non-empty section body with no environment marker and no proof marker
\* yields exactly one block, a prose block whose text is the trimmed body.
C5_MarkerlessBodyOneBlock ==
    (/\ pc = "blocks"
     /\ sections[section].body # <<>>
     /\ find_markers(sections[section].body) = <<>>)
        => blocks = <<[type |-> "prose", text |-> strip(sections[section].body)]>>

\* Raw chunk text t is the blank-line join of consecutive whole blocks of bs.
joins_whole_blocks(t, bs) ==
    \E a \in 1..Len(bs) : \E b \in a..Len(bs) :
        t = join(BLANK_LINE, SubSeq(block_texts(bs), a, b))

\* Raw chunk text t is one piece the paragraph splitter returns for a block of
\* bs that alone estimates above max_tokens.
is_splitter_piece(t, bs) ==
    \E k \in 1..Len(bs) :
        /\ estimate_tokens(bs[k].text) > max_tokens
        /\ LET pieces == split_at_paragraphs(bs[k].text, max_tokens)
           IN  \E n \in 1..Len(pieces) : t = pieces[n]

\* C6: the text of every raw chunk is the blank-line join of one or more whole,
\* consecutive block texts of one section, or one piece of the paragraph
\* splitter for an oversized block of that section.  raw_chunks only grows, so
\* the raw chunks are read when the loop over the sections is over.
C6_RawChunksAreWholeBlocks ==
    (pc = "sections" /\ section > Len(sections)) =>
        \A i \in 1..Len(raw_chunks) :
            LET bs == split_into_blocks(sections[raw_origin[i].section].body)
            IN  \/ joins_whole_blocks(raw_chunks[i].text, bs)
                \/ is_splitter_piece(raw_chunks[i].text, bs)

\* C6's case: a raw chunk that joins several blocks, and a raw chunk that is a
\* piece of an oversized block.
C6_Witness ==
    /\ pc = "sections"
    /\ \E i \in 1..Len(raw_chunks) :
          raw_origin[i].kind = "flush" /\ raw_origin[i].last > raw_origin[i].first
    /\ \E i \in 1..Len(raw_chunks) : raw_origin[i].kind = "piece"

\* C7: every piece split_at_paragraphs returns estimates <= max_tokens, unless
\* the piece is a single paragraph; a piece of several paragraphs joined by
\* blank lines is within budget.
C7_PiecesWithinBudget ==
    pc = "blocks" =>
        \A k \in 1..Len(blocks) :
            LET pieces == split_at_paragraphs(blocks[k].text, max_tokens)
            IN  \A n \in 1..Len(pieces) :
                    \/ estimate_tokens(pieces[n]) <= max_tokens
                    \/ Len(paragraphs_of(pieces[n])) = 1

\* C8 as stated: joining the pieces of split_at_paragraphs with a blank line
\* gives back the input text, character for character.
C8_JoinReconstructsText ==
    pc = "blocks" =>
        \A k \in 1..Len(blocks) :
            join(BLANK_LINE, split_at_paragraphs(blocks[k].text, max_tokens))
                = blocks[k].text

\* C8, amended: a text within budget comes back as the one piece; for a text
\* above budget, joining the pieces with a blank line gives the text with
\* every run of two or more newlines cut to two newlines.  The blocks of a
\* section are read when split_into_blocks has just returned them.
C8_JoinReconstructsCollapsed ==
    (pc = "blocks" /\ block = 1) =>
        \A k \in 1..Len(blocks) :
            LET t      == blocks[k].text
                pieces == split_at_paragraphs(t, max_tokens)
            IN  IF estimate_tokens(t) <= max_tokens
                  THEN pieces = <<t>>
                  ELSE join(BLANK_LINE, pieces) = collapse_newlines(t)

\* C8's case: a block above budget whose paragraphs are three newlines apart,
\* split into several pieces.
C8_Witness ==
    /\ pc = "blocks"
    /\ block = 1
    /\ \E k \in 1..Len(blocks) :
          /\ estimate_tokens(blocks[k].text) > max_tokens
          /\ collapse_newlines(blocks[k].text) # blocks[k].text
          /\ Len(split_at_paragraphs(blocks[k].text, max_tokens)) >= 2

C10_FloorFilter ==
    pc = "done" => \A i \in 1..Len(chunks) : chunks[i].tokens_est >= 20

\* C10's case: the merger left a chunk below the floor and one at or above it;
\* the first is dropped, not merged, and the second is returned.
C10_Witness ==
    /\ pc = "done"
    /\ \E i \in 1..Len(merged) : merged[i].tokens_est < 20
    /\ \E i \in 1..Len(merged) : merged[i].tokens_est >= 20
    /\ Len(chunks) >= 1
    /\ Len(chunks) < Len(merged)

\* C11: the list chunk_chapter returns carries chunk_id 0..N-1 in list order,
\* where N is the number of chunks the merger left at or above the floor: a
\* chunk that was merged away or dropped takes no id.
C11_SequentialIds ==
    pc = "done" =>
        /\ \A i \in 1..Len(chunks) : chunks[i].chunk_id = i - 1
        /\ Len(chunks) = Cardinality({i \in 1..Len(merged) :
                                        merged[i].tokens_est >= FLOOR_TOKENS})

\* C11's case: a returned list of two or more chunks, after a merge and after
\* the filter dropped a chunk that stood before a returned one.
C11_Witness ==
    /\ pc = "done"
    /\ Len(chunks) >= 2
    /\ Len(merged) < Len(raw_chunks)
    /\ \E i \in 1..Len(merged) : \E j \in (i + 1)..Len(merged) :
          merged[i].tokens_est < FLOOR_TOKENS /\ merged[j].tokens_est >= FLOOR_TOKENS

\* C14: after a merge, the merged chunk's section is the incoming chunk's
\* section when the incoming chunk's tokens_est exceeds the accumulator's
\* tokens_est as it was before the merge, and the accumulator's section
\* otherwise.
C14_LabelFollowsLargerChunk ==
    last_merge.merged =>
        merged[Len(merged)].section =
            IF last_merge.chunk.tokens_est > last_merge.prev.tokens_est
              THEN last_merge.chunk.section
              ELSE last_merge.prev.section

\* C15: every raw chunk has the header text of the section its blocks come from
\* in its section field (the empty string for the preamble) and holds blocks
\* of that section only; the accumulator is empty at the head of the loop over
\* the sections.
C15_RawChunkSection ==
    /\ pc = "sections" => pending = <<>> /\ pending_tokens = 0
    /\ (pc = "sections" /\ section > Len(sections)) =>
        \A i \in 1..Len(raw_chunks) :
              LET o   == raw_origin[i]
                  sec == sections[o.section]
                  bs  == split_into_blocks(sec.body)
              IN  /\ raw_chunks[i].section =
                        (IF sec.header = None THEN <<>> ELSE sec.header[1])
                  /\ o.last <= Len(bs)
                  /\ IF o.kind = "flush"
                       THEN raw_chunks[i].text =
                              join(BLANK_LINE, SubSeq(block_texts(bs), o.first, o.last))
                       ELSE \E piece \in
                              Range(split_at_paragraphs(bs[o.first].text, max_tokens)) :
                                raw_chunks[i].text = piece

\* C15's case: the loop over the sections is over, with raw chunks of the
\* preamble and of a section under a header, one of them of several blocks.
C15_Witness ==
    /\ pc = "sections"
    /\ section > Len(sections)
    /\ \E i \in 1..Len(raw_chunks) : raw_chunks[i].section = <<>>
    /\ \E i \in 1..Len(raw_chunks) :
          /\ raw_chunks[i].section # <<>>
          /\ raw_origin[i].last > raw_origin[i].first

\* The chapter body chunk_chapter hands to parse_sections.
chapter_body == strip(strip_h1(preclean(text)))

\* A section as text: its header line, when it has one, and its body.
section_text(sec) ==
    IF sec.header = None THEN sec.body
    ELSE [k \in 1..sec.level |-> "#"] \o <<" ">> \o sec.header[1] \o <<NL>>
         \o sec.body

\* C16: the sections of parse_sections, each with its header line put back
\* before its body, concatenated in order, are the chapter body up to
\* whitespace: no text is lost, repeated or moved.  sections is written by
\* ParseChapter only and is read at the head of the loop over the sections.
C16_SectionsCoverBody ==
    (pc = "sections" /\ section = 1) =>
        non_whitespace(concat([s \in 1..Len(sections) |-> section_text(sections[s])]))
            = non_whitespace(chapter_body)

\* C16's case: a chapter with text before its first header and two sections
\* under headers, the last one with text.
C16_Witness ==
    /\ pc = "sections"
    /\ Len(sections) >= 3
    /\ sections[1].header = None
    /\ sections[1].body # <<>>
    /\ sections[2].body = <<>>
    /\ sections[Len(sections)].body # <<>>

\* The chunks the assembler and the merger hold.
held_chunks == Range(raw_chunks) \cup Range(merged)

\* C17: the tokens_est of every chunk is floor(len(text) / 3.5), the natural
\* number e with 7 * e <= 2 * len(text) < 7 * (e + 1), and of two chunks the one
\* with the longer text never has the smaller tokens_est.  The chunks are
\* read in the merger's loop, where raw_chunks is complete.
C17_EstimateIsFloor ==
    pc = "merge" =>
        /\ \A c \in held_chunks :
              /\ c.tokens_est \in Nat
              /\ 7 * c.tokens_est <= 2 * Len(c.text)
              /\ 2 * Len(c.text) < 7 * (c.tokens_est + 1)
        /\ \A c \in held_chunks : \A d \in held_chunks :
              Len(c.text) <= Len(d.text) => c.tokens_est <= d.tokens_est

\* C17's case: a chunk whose length is a whole number of tokens, a chunk just
\* short of its next token, and a merged chunk whose estimate was recomputed.
C17_Witness ==
    /\ pc = "merge"
    /\ \E c \in held_chunks : Len(c.text) > 0 /\ (2 * Len(c.text)) % 7 = 0
    /\ \E c \in held_chunks : (2 * Len(c.text)) % 7 >= 5
    /\ last_merge.merged

\* The chapter body is one paragraph with no header and no marker.
single_paragraph_chapter ==
    /\ chapter_body # <<>>
    /\ Len(parse_sections(chapter_body)) = 1
    /\ parse_sections(chapter_body)[1].header = None
    /\ find_markers(chapter_body) = <<>>
    /\ Len(paragraphs_of(chapter_body)) = 1

\* C18: a chapter whose body is one paragraph with no header and no marker,
\* estimating below 20 tokens, gives one section, one prose block and one raw
\* chunk with the paragraph's estimate, and chunk_chapter returns no chunk.
C18_SmallParagraphDropped ==
    (single_paragraph_chapter /\ estimate_tokens(chapter_body) < 20) =>
        /\ pc # "start" => Len(sections) = 1
        /\ pc = "blocks" =>
              blocks = <<[type |-> "prose", text |-> chapter_body]>>
        /\ pc \in {"merge", "done"} =>
              /\ Len(raw_chunks) = 1
              /\ raw_chunks[1].tokens_est = estimate_tokens(chapter_body)
        /\ pc = "done" => chunks = <<>>

\* C19: for a chapter that is its title line alone, parse_sections gives one
\* section with no header and an empty body, split_into_blocks gives no block
\* for it, no raw chunk is made and chunk_chapter returns the empty list.
\* Read when chunk_chapter returns: sections, blocks, raw_chunks and merged
\* are then as the steps before left them.
C19_EmptyChapter ==
    (pc = "done" /\ chapter_body = <<>>) =>
        /\ sections = <<[header |-> None, level |-> 0, body |-> <<>>]>>
        /\ blocks = <<>>
        /\ raw_chunks = <<>>
        /\ merged = <<>>
        /\ chunks = <<>>

\* C19's case: chunk_chapter has returned for a chapter of a title line alone.
C19_Witness ==
    /\ text = TITLE
    /\ chapter_body = <<>>
    /\ pc = "done"

\* C13: a merge that puts a raw chunk into an accumulator holding a raw chunk
\* of another section of the chapter is a forced merge: the accumulator's
\* tokens_est before the merge is below min_tokens // 2.
C13_CrossSectionOnlyForced ==
    last_merge.merged =>
        LET o == merged_origin[Len(merged)]
        IN  (\E k \in o.first..(o.last - 1) :
                raw_origin[k].section # raw_origin[o.last].section)
                => last_merge.prev.tokens_est < min_tokens \div 2

\* C12: the records of a book's .jsonl file carry chunk_id 0..N-1 in record
\* order, whatever the number of chapters of the book.
C12_FileIdsSequential ==
    pc = "written" =>
        \A i \in 1..Len(out_file) : out_file[i].chunk_id = i - 1

\* The chunks of every chapter are what chunk_chapter returns for that
\* chapter's text and metadata alone, whatever was processed before it, and
\* the file holds them chapter after chapter.
chapters_independent ==
    /\ all_chunks =
          concat([f \in 1..(md_file - 1) |->
                    chunk_chapter(book_dir[f],
                                  chapter_meta_of(BUILT_META, f, book_dir[f]),
                                  min_tokens, max_tokens)])
    /\ pc = "done" =>
          /\ text = book_dir[md_file]
          /\ chapter_meta = chapter_meta_of(BUILT_META, md_file, text)
          /\ chunks = chunk_chapter(text, chapter_meta, min_tokens, max_tokens)
    /\ pc = "written" => out_file = all_chunks

incoming_chunk == raw_chunks[chunk - 1]
accumulator_before ==
    IF last_merge.merged THEN last_merge.prev ELSE merged[Len(merged) - 1]

\* C21: a pass of the merger merges the incoming chunk into the accumulator
\* exactly when their estimates sum to at most max_tokens and either the two
\* have one section label and one of them is below min_tokens, or the
\* accumulator is below min_tokens // 2, all read from the accumulator as the
\* earlier merges left it; otherwise the incoming chunk is appended and is the
\* new accumulator.  Two chunks that are both at least min_tokens never merge.
C21_MergeIffCondition ==
    (pc = "merge" /\ chunk >= 3) =>
        LET prev == accumulator_before
            c    == incoming_chunk
            cond == /\ prev.tokens_est + c.tokens_est <= max_tokens
                    /\ \/ /\ prev.section = c.section
                          /\ (prev.tokens_est < min_tokens \/ c.tokens_est < min_tokens)
                       \/ prev.tokens_est < min_tokens \div 2
        IN  /\ last_merge.merged <=> cond
            /\ last_merge.merged => last_merge.chunk = c
            /\ ~last_merge.merged => merged[Len(merged)] = c
            /\ (prev.tokens_est >= min_tokens /\ c.tokens_est >= min_tokens)
                   => ~last_merge.merged

\* C21's case: a pass appended a chunk below min_tokens that fitted the
\* accumulator's budget, the accumulator being of another section and not
\* below min_tokens // 2.
C21_Witness ==
    /\ pc = "merge"
    /\ chunk >= 3
    /\ ~last_merge.merged
    /\ accumulator_before.tokens_est + incoming_chunk.tokens_est <= max_tokens
    /\ incoming_chunk.tokens_est < min_tokens
    /\ accumulator_before.section # incoming_chunk.section

\* The text before the first marker of a body, trimmed.
leading_prose(body, ms) == strip(Slice(body, 0, ms[1].start))

\* C22: for a section body with at least one marker, the blocks are, in source
\* order, a prose block for the text before the first marker when that text
\* is not blank, then one block per marker, of the marker's kind and label,
\* holding the text from the marker's start to the next marker's start or to
\* the end of the body; no prose block follows the last marker, and an
\* environment marker followed by a proof marker gives two blocks.
C22_OneBlockPerMarker ==
    (pc = "blocks" /\ block = 1) =>
        LET body == sections[section].body
            ms   == find_markers(body)
            lead == IF ms = <<>> THEN <<>> ELSE leading_prose(body, ms)
            off  == IF lead = <<>> THEN 0 ELSE 1
        IN  ms # <<>> =>
              /\ Len(blocks) = off + Len(ms)
              /\ off = 1 => blocks[1] = [type |-> "prose", text |-> lead]
              /\ \A n \in 1..Len(ms) :
                    LET end == IF n < Len(ms) THEN ms[n + 1].start ELSE Len(body)
                    IN  blocks[off + n] =
                          [type  |-> ms[n].kind,
                           label |-> ms[n].label,
                           text  |-> strip(Slice(body, ms[n].start, end))]
              /\ blocks[Len(blocks)].type # "prose"
              /\ (off = 0 /\ Len(ms) = 2 /\ ms[1].kind = "env" /\ ms[2].kind = "proof")
                    => Len(blocks) = 2

\* C22's case: a body with prose before its first marker, an environment
\* marker and a proof marker after it.
C22_Witness ==
    /\ pc = "blocks"
    /\ block = 1
    /\ LET body == sections[section].body
           ms   == find_markers(body)
       IN  /\ Len(ms) >= 2
           /\ leading_prose(body, ms) # <<>>
           /\ ms[1].kind = "env"
           /\ ms[2].kind = "proof"
           /\ Len(blocks) = 3

\* The number of blocks of section s.
blocks_in(s) == Len(split_into_blocks(sections[s].body))

\* Raw chunk j is a piece of the same block as raw chunk i.
same_piece_run(i, j) ==
    /\ raw_origin[i].kind = "piece"
    /\ raw_origin[j].kind = "piece"
    /\ raw_origin[i].section = raw_origin[j].section
    /\ raw_origin[i].first = raw_origin[j].first

\* Raw chunk i + 1 starts at the block that follows the last block of raw
\* chunk i in document order.
starts_after(i) ==
    LET o  == raw_origin[i]
        o2 == raw_origin[i + 1]
    IN  \/ o2.section = o.section /\ o2.first = o.last + 1
        \/ /\ o2.section > o.section
           /\ o.last = blocks_in(o.section)
           /\ o2.first = 1
           /\ \A s \in (o.section + 1)..(o2.section - 1) : blocks_in(s) = 0

\* C23: the raw chunks keep the source order and lose nothing.  After a pass
\* over a block above max_tokens the accumulator is empty and the raw list
\* ends with that block's pieces; when the loop over the sections is over, the
\* raw chunks, read in list order, hold every block of every section in
\* document order exactly once: a chunk made by flush() is the join of a run of
\* blocks, the pieces of a block above max_tokens follow the chunk flushed
\* before them, in the splitter's order, each as one chunk.
C23_RawChunksInOrder ==
    /\ (pc = "blocks" /\ block > 1
            /\ estimate_tokens(blocks[block - 1].text) > max_tokens) =>
          /\ pending = <<>>
          /\ pending_tokens = 0
          /\ raw_origin[Len(raw_origin)] =
                [section |-> section, kind |-> "piece",
                 first |-> block - 1, last |-> block - 1]
    /\ (pc = "sections" /\ section > Len(sections)) =>
          LET n == Len(raw_chunks)
          IN  /\ Len(raw_origin) = n
              /\ IF n = 0 THEN \A s \in 1..Len(sections) : blocks_in(s) = 0
                 ELSE /\ raw_origin[1].first = 1
                      /\ \A s \in 1..(raw_origin[1].section - 1) : blocks_in(s) = 0
                      /\ raw_origin[n].last = blocks_in(raw_origin[n].section)
                      /\ \A s \in (raw_origin[n].section + 1)..Len(sections) :
                            blocks_in(s) = 0
              /\ \A i \in 1..(n - 1) : same_piece_run(i, i + 1) \/ starts_after(i)
              /\ \A i \in 1..n :
                    LET o  == raw_origin[i]
                        bs == split_into_blocks(sections[o.section].body)
                    IN  IF o.kind = "flush"
                          THEN /\ o.first <= o.last
                               /\ raw_chunks[i].text =
                                    join(BLANK_LINE,
                                         SubSeq(block_texts(bs), o.first, o.last))
                          ELSE LET pieces == split_at_paragraphs(bs[o.first].text,
                                                                 max_tokens)
                                   run    == {j \in 1..n : same_piece_run(i, j)}
                                   rank   == Cardinality({j \in run : j <= i})
                               IN  /\ o.first = o.last
                                   /\ Cardinality(run) = Len(pieces)
                                   /\ run = Min(run)..(Min(run) + Len(pieces) - 1)
                                   /\ raw_chunks[i].text = pieces[rank]

\* C23's case: the loop over the sections is over; a block above max_tokens
\* gave several pieces and the accumulator, which held a block of the same
\* section, was flushed before them.
C23_Witness ==
    /\ pc = "sections"
    /\ section > Len(sections)
    /\ \E i \in 2..(Len(raw_chunks) - 1) :
          /\ raw_origin[i - 1].kind = "flush"
          /\ raw_origin[i - 1].section = raw_origin[i].section
          /\ same_piece_run(i, i + 1)
          /\ raw_chunks[i].text # raw_chunks[i + 1].text

\* The paragraphs of a text that estimate above max_tokens, as indices.
oversized_in(ps) == {k \in 1..Len(ps) : estimate_tokens(ps[k]) > max_tokens}

\* C24: a paragraph that alone estimates above max_tokens leaves the
\* paragraph splitter as a piece holding that paragraph only, unchanged,
\* whatever the paragraphs before and after it estimate; no oversized
\* paragraph is lost or cut; the assembler appends the piece as a raw chunk
\* of its own, above max_tokens.
C24_OversizedParagraphAlone ==
    (pc = "blocks" /\ block > 1
        /\ estimate_tokens(blocks[block - 1].text) > max_tokens) =>
        LET t      == blocks[block - 1].text
            ps     == paragraphs_of(t)
            pieces == split_at_paragraphs(t, max_tokens)
            base   == Len(raw_chunks) - Len(pieces)
            alone  == {j \in 1..Len(pieces) :
                         estimate_tokens(pieces[j]) > max_tokens
                         /\ Len(paragraphs_of(pieces[j])) = 1}
        IN  /\ \A j \in 1..Len(pieces) :
                  oversized_in(paragraphs_of(pieces[j])) # {} => j \in alone
            /\ Cardinality(alone) = Cardinality(oversized_in(ps))
            /\ \A k \in oversized_in(ps) : \E j \in alone : pieces[j] = ps[k]
            /\ \A j \in alone :
                  /\ raw_chunks[base + j].text = pieces[j]
                  /\ raw_chunks[base + j].tokens_est > max_tokens

\* C24's case: a pass over a block whose oversized paragraph stands between
\* two paragraphs estimating 0 tokens.
C24_Witness ==
    /\ pc = "blocks"
    /\ block > 1
    /\ LET ps == paragraphs_of(blocks[block - 1].text)
       IN  \E k \in 2..(Len(ps) - 1) :
              /\ k \in oversized_in(ps)
              /\ estimate_tokens(ps[k - 1]) = 0
              /\ estimate_tokens(ps[k + 1]) = 0
              /\ raw_chunks[Len(raw_chunks) - 1].text = ps[k]

\* The lines of a text: the parts between its newlines.
lines_of(t) ==
    LET nls   == Sorted({i \in 1..Len(t) : t[i] = NL})
        start == [n \in 1..(Len(nls) + 1) |-> IF n = 1 THEN 1 ELSE nls[n - 1] + 1]
        stop  == [n \in 1..(Len(nls) + 1) |->
                    IF n > Len(nls) THEN Len(t) ELSE nls[n] - 1]
    IN  [n \in 1..(Len(nls) + 1) |-> SubSeq(t, start[n], stop[n])]

\* The number of "#" a line starts with.
leading_hashes(line) ==
    Cardinality({n \in 1..Len(line) : \A m \in 1..n : line[m] = "#"})

\* A header line of level 2 to 4: two to four "#", a blank, one more
\* character at least.
is_header_line(line) ==
    LET n == leading_hashes(line)
    IN  n \in 2..4 /\ Len(line) >= n + 2 /\ line[n + 1] \in {" ", "\t"}

\* C25: a chapter body with k header lines of level 2 to 4 gives k + 1
\* sections in document order: the preamble, with no header and level 0, even
\* when nothing precedes the first header, then one section per header line,
\* its level the number of "#" of the line, even when its body is empty.  A
\* body with no header gives one section holding the whole body.
C25_OneSectionPerHeader ==
    (pc = "sections" /\ section = 1) =>
        LET hs == SelectSeq(lines_of(chapter_body), is_header_line)
        IN  /\ Len(sections) = Len(hs) + 1
            /\ sections[1].header = None
            /\ sections[1].level = 0
            /\ \A i \in 1..Len(hs) :
                  LET n == leading_hashes(hs[i])
                  IN  /\ sections[i + 1].level = n
                      /\ sections[i + 1].header =
                            <<strip(SubSeq(hs[i], n + 1, Len(hs[i])))>>
            /\ hs = <<>> => sections[1].body = chapter_body

\* C25's case: headers of level 2, 3 and 4 on consecutive lines with nothing
\* before the first: four sections, each with an empty body.
C25_Witness ==
    /\ pc = "sections"
    /\ section = 1
    /\ Len(sections) = 4
    /\ sections[2].level = 2
    /\ sections[3].level = 3
    /\ sections[4].level = 4
    /\ \A s \in 1..4 : sections[s].body = <<>>

\* C26: at every point of chunk_chapter the tokens_est of a chunk is
\* estimate_tokens of the text the chunk holds at that point: of every raw
\* chunk (read in the merger's loop, where the list is complete), of the
\* accumulator and the other chunks of the merger's list after every pass,
\* and of every chunk returned; it is never a running sum.
C26_EstimateOfCurrentText ==
    /\ pc = "merge" =>
          /\ \A i \in 1..Len(raw_chunks) :
                raw_chunks[i].tokens_est = estimate_tokens(raw_chunks[i].text)
          /\ \A i \in 1..Len(merged) :
                merged[i].tokens_est = estimate_tokens(merged[i].text)
    /\ pc = "done" =>
          \A i \in 1..Len(chunks) :
              chunks[i].tokens_est = estimate_tokens(chunks[i].text)

\* C26's case: a merge whose recomputed estimate is not the sum of the two
\* estimates it joined.
C26_Witness ==
    /\ pc = "merge"
    /\ last_merge.merged
    /\ merged[Len(merged)].tokens_est #
          last_merge.prev.tokens_est + last_merge.chunk.tokens_est

\* C27: for fixed min_tokens and max_tokens the merger is idempotent: run on
\* its own output it merges nothing and returns the same chunks, and no two
\* adjacent chunks of its output satisfy the merge condition.
C27_MergerIdempotent ==
    (pc = "merge" /\ chunk > Len(raw_chunks)) =>
        /\ merge_small_chunks(merged, min_tokens, max_tokens) = merged
        /\ \A i \in 1..(Len(merged) - 1) :
              ~merge_condition(merged[i], merged[i + 1], min_tokens, max_tokens)

\* C27's case: the merger's loop is over; its output holds a chunk it merged
\* and, next to it, a chunk of the same section label that it kept apart.
C27_Witness ==
    /\ pc = "merge"
    /\ chunk > Len(raw_chunks)
    /\ \E i \in 1..(Len(merged) - 1) :
          /\ \/ merged_origin[i].last > merged_origin[i].first
             \/ merged_origin[i + 1].last > merged_origin[i + 1].first
          /\ merged[i].section = merged[i + 1].section

\* C28: every chunk of the merger's list has the section label of the first
\* input chunk merged into it; a merge, forced or not, leaves the
\* accumulator's section as it was, whatever the sizes of the two chunks.
C28_LabelOfFirstChunk ==
    /\ pc \in {"merge", "done"} =>
          \A i \in 1..Len(merged) :
              merged[i].section = raw_chunks[merged_origin[i].first].section
    /\ last_merge.merged =>
          merged[Len(merged)].section = last_merge.prev.section

\* C28's case: a merge across two sections of an incoming chunk larger than
\* the accumulator was before the merge.
C28_Witness ==
    /\ pc = "merge"
    /\ last_merge.merged
    /\ last_merge.prev.section # last_merge.chunk.section
    /\ last_merge.chunk.tokens_est > last_merge.prev.tokens_est

\* The texts of a sequence of chunks.
chunk_texts(cs) == [k \in 1..Len(cs) |-> cs[k].text]

\* C29: the merger drops, repeats and reorders no text.  Each chunk of its
\* list is the blank-line join of a run of consecutive input chunks (read for
\* the accumulator after every pass and for the whole list when the loop is
\* over), the runs follow one another from the first input chunk to the last
\* one read, the list is no longer than the input, and a list of zero or one
\* chunk is returned as it is; so the blank-line join of the output texts is
\* the blank-line join of the input texts.
C29_MergerKeepsText ==
    pc = "merge" =>
        LET n    == Len(merged)
            read == IF raw_chunks = <<>> THEN 0 ELSE chunk - 1
        IN  /\ Len(merged_origin) = n
            /\ n <= Len(raw_chunks)
            /\ Len(raw_chunks) <= 1 => merged = raw_chunks
            /\ n > 0 => merged_origin[1].first = 1 /\ merged_origin[n].last = read
            /\ n = 0 => read = 0
            /\ \A i \in 1..(n - 1) :
                  merged_origin[i + 1].first = merged_origin[i].last + 1
            /\ \A i \in (IF chunk > Len(raw_chunks) THEN 1 ELSE n)..n :
                  /\ merged_origin[i].first <= merged_origin[i].last
                  /\ merged[i].text =
                        join(BLANK_LINE,
                             SubSeq(chunk_texts(raw_chunks),
                                    merged_origin[i].first, merged_origin[i].last))
            /\ chunk > Len(raw_chunks) =>
                  join(BLANK_LINE, chunk_texts(merged))
                      = join(BLANK_LINE, chunk_texts(raw_chunks))

\* C29's case: the merger's loop is over and one chunk of its list is the
\* join of three input chunks.
C29_Witness ==
    /\ pc = "merge"
    /\ chunk > Len(raw_chunks)
    /\ \E i \in 1..Len(merged) :
          merged_origin[i].last >= merged_origin[i].first + 2

\* The sum of the token estimates of a sequence of texts.
RECURSIVE sum_of_estimates(_)
sum_of_estimates(ts) ==
    IF ts = <<>> THEN 0
    ELSE estimate_tokens(ts[1]) + sum_of_estimates(Tail(ts))

\* C30: in the loop over a section's blocks, pending_tokens is the sum of the
\* estimates of the block texts held in pending and is never above
\* max_tokens; a flush before the section's last block happens only when
\* pending_tokens plus the estimate of the next block is above max_tokens; a
\* flush of an empty accumulator appends no chunk, so no raw chunk has an
\* empty text or an empty run of blocks.
C30_PendingTokensIsSum ==
    /\ \A i \in 1..Len(raw_chunks) : raw_chunks[i].text # <<>>
    /\ Len(raw_origin) = Len(raw_chunks)
    /\ \A i \in 1..Len(raw_origin) : raw_origin[i].first <= raw_origin[i].last
    /\ pc = "blocks" =>
          /\ pending_tokens = sum_of_estimates(pending)
          /\ pending_tokens <= max_tokens
          /\ pending = SubSeq(block_texts(blocks), block - Len(pending), block - 1)
          /\ \A i \in 1..Len(raw_origin) :
                LET o == raw_origin[i]
                IN  (o.section = section /\ o.kind = "flush") =>
                      sum_of_estimates(SubSeq(block_texts(blocks), o.first, o.last))
                        + estimate_tokens(blocks[o.last + 1].text) > max_tokens

\* C30's case: a flush on the budget before the section's last block, with
\* the block that did not fit now held in pending.
C30_Witness ==
    /\ pc = "blocks"
    /\ pending # <<>>
    /\ pending_tokens > 0
    /\ \E i \in 1..Len(raw_origin) :
          /\ raw_origin[i].section = section
          /\ raw_origin[i].kind = "flush"
          /\ raw_origin[i].last = block - 1 - Len(pending)

====
